---- MODULE Spec2Model ----
(***************************************************************************)
(* A model of the PPO training core of ai-gym: the spectral-entropy        *)
(* regulariser and the clipped actor loss (algorithms/losses.py), and the  *)
(* experience datasets (algorithms/dataset.py) with the advantage/return   *)
(* estimator they call (algorithms/utils.py).                              *)
(*                                                                         *)
(* Real numbers are exact rationals <<n, d>> in lowest terms (d > 0).      *)
(* Transcendental library functions (exp, softmax+log) are tabulated on    *)
(* the finite input domains of the model, rounded to four decimals.        *)
(***************************************************************************)
EXTENDS Integers, Sequences, FiniteSets, TLC

VARIABLES
    se,        \* the SpectralEntropyLoss instance: weight, eps, update_rate, t
    se_model,  \* the model whose parameters the regulariser is applied to
    se_calls,  \* history: one record per forward() call, in call order
    gae_cfg,   \* the discount gamma and trace decay lambda of the estimator
    ds_in,     \* the episodes handed to the ExperienceDataset constructor
    ds,        \* the ExperienceDataset object (or "none" / "error")
    ds_item,   \* outcome of the last ExperienceDataset.__getitem__
    aux_in,    \* the arguments handed to the ExperienceAuxDataset constructor
    aux,       \* the ExperienceAuxDataset object (or "none" / "error")
    aux_item,  \* outcome of the last ExperienceAuxDataset.__getitem__
    aux_log,   \* history: the indices read without error, and whether one failed
    actor,     \* the ClipActorLoss instance: eps
    actor_in,  \* the arguments handed to ClipActorLoss.forward
    actor_out  \* the outcome of ClipActorLoss.forward

vars == << se, se_model, se_calls, gae_cfg, ds_in, ds, ds_item,
           aux_in, aux, aux_item, aux_log, actor, actor_in, actor_out >>

se_vars    == << se, se_model, se_calls >>
ds_vars    == << gae_cfg, ds_in, ds, ds_item >>
aux_vars   == << aux_in, aux, aux_item, aux_log >>
actor_vars == << actor, actor_in, actor_out >>

-----------------------------------------------------------------------------
(* Exact rational arithmetic standing for the tensors' floating point.     *)

Abs(x) == IF x < 0 THEN -x ELSE x

RECURSIVE GCD(_, _)
GCD(a, b) == IF b = 0 THEN a ELSE GCD(b, a % b)

Rat(n, d) ==
    LET g == GCD(Abs(n), Abs(d))
        s == IF d < 0 THEN -1 ELSE 1
    IN  << (s * n) \div g, (s * d) \div g >>

Int2Rat(i) == << i, 1 >>
Zero == Int2Rat(0)
One  == Int2Rat(1)

RAdd(x, y) ==
    LET g == GCD(x[2], y[2])
    IN  Rat(x[1] * (y[2] \div g) + y[1] * (x[2] \div g), x[2] * (y[2] \div g))
RNeg(x)    == << -x[1], x[2] >>
RSub(x, y) == RAdd(x, RNeg(y))
RMul(x, y) ==
    LET g1 == GCD(Abs(x[1]), y[2])
        g2 == GCD(Abs(y[1]), x[2])
        h1 == IF g1 = 0 THEN 1 ELSE g1
        h2 == IF g2 = 0 THEN 1 ELSE g2
    IN  Rat((x[1] \div h1) * (y[1] \div h2), (x[2] \div h2) * (y[2] \div h1))
RLe(x, y)  == x[1] * y[2] <= y[1] * x[2]
RMin(x, y) == IF RLe(x, y) THEN x ELSE y
RMax(x, y) == IF RLe(x, y) THEN y ELSE x
RClamp(x, lo, hi) == RMin(RMax(x, lo), hi)

RECURSIVE RSum(_)
RSum(s) == IF s = << >> THEN Zero ELSE RAdd(s[1], RSum(Tail(s)))

RECURSIVE Product(_)
Product(s) == IF s = << >> THEN 1 ELSE s[1] * Product(Tail(s))

-----------------------------------------------------------------------------
(* SpectralEntropyLoss (algorithms/losses.py)                              *)

MaxPeriod == 4    \* update_very ranges over 1..MaxPeriod
MaxParams == 2    \* parameter tensors per model
MaxCalls  == 8    \* forward() calls per instance

DefaultSpectralWeight == Rat(2, 100)

\* Shapes of the parameter tensors: a bias vector, a one-row matrix, a
\* square matrix and a batch of two one-row matrices.
ParamShapes == { <<2>>, <<1, 2>>, <<2, 2>>, <<2, 1, 2>> }
SingVals    == 0 .. 2

\* torch.linalg.svdvals gives, for each matrix of the batch, min(row, col)
\* singular values, non-negative and in descending order.
Spectra(k) ==
    { s \in [1 .. k -> SingVals] : \A i \in 1 .. k - 1 : s[i] >= s[i + 1] }

\* parameter.reshape(-1, row, col): the number of matrices in the batch
BatchOf(shape) == Product(SubSeq(shape, 1, Len(shape) - 2))
RankOf(shape)  ==
    LET row == shape[Len(shape) - 1]
        col == shape[Len(shape)]
    IN  IF row < col THEN row ELSE col

\* A parameter tensor is described by its shape and by the singular values
\* of each of its trailing matrices (none for tensors with ndim < 2).
ParamsOfShape(shape) ==
    IF Len(shape) < 2
    THEN { [shape |-> shape, sv |-> << >>] }
    ELSE { [shape |-> shape, sv |-> v] :
             v \in [1 .. BatchOf(shape) -> Spectra(RankOf(shape))] }

Parameters == UNION { ParamsOfShape(sh) : sh \in ParamShapes }

Models == UNION { [1 .. n -> Parameters] : n \in 0 .. MaxParams }

\* entropy(softmax(s)) of one row of singular values, in nats: a single value
\* has probability 1 and -1 * log(1) = 0; two values at distance g have
\* probabilities 1/(1+e^-g) and its complement.  Every probability of the
\* table is far above eps = 1e-16, so clamp(min=eps) leaves it unchanged.
EntropyOfGap(g) ==
    CASE g = 0 -> Rat(6931, 10000)
      [] g = 1 -> Rat(5822, 10000)
      [] g = 2 -> Rat(3653, 10000)
      [] OTHER -> Rat(1909, 10000)

RowEntropy(s) == IF Len(s) = 1 THEN Zero ELSE EntropyOfGap(s[1] - s[2])

\* spectral_entropy of one parameter: entropy() sums over the whole batch
spectral_entropy(parameter) ==
    RSum([b \in 1 .. Len(parameter.sv) |-> RowEntropy(parameter.sv[b])])

\* the loop over model.parameters(), skipping tensors with ndim < 2
RECURSIVE accumulate(_)
accumulate(model) ==
    IF model = << >> THEN Zero
    ELSE IF Len(model[1].shape) < 2
         THEN accumulate(Tail(model))
         ELSE RAdd(spectral_entropy(model[1]), accumulate(Tail(model)))

\* SpectralEntropyLoss.__init__; self.eps = 1e-16 only floors the
\* probabilities inside log(), see EntropyOfGap
\* (faulty variant: the counter starts at 0)
SpectralEntropyLoss_init_t0(weight, update_very) ==
    [weight |-> weight, update_rate |-> update_very, t |-> 0]

SpectralEntropyLoss_init(weight, update_very) ==
    [weight |-> weight, update_rate |-> update_very, t |-> 1]

\* forward() of instance self on model: whether the loss was kept (the call
\* is "active") and the value returned; the caller then sees self.t + 1
\* (faulty variant: the loss is zeroed on the calls where t mod update_rate = 0)
forward_eq(self, model) ==
    LET loss   == accumulate(model)
        zeroes == (self.t % self.update_rate = 0)
    IN  [active |-> ~zeroes,
         loss   |-> RMul(self.weight, IF zeroes THEN RMul(loss, Zero) ELSE loss)]

forward(self, model) ==
    LET loss   == accumulate(model)
        zeroes == (self.t % self.update_rate # 0)
    IN  [active |-> ~zeroes,
         loss   |-> RMul(self.weight, IF zeroes THEN RMul(loss, Zero) ELSE loss)]

SpectralForward ==
    /\ Len(se_calls) < MaxCalls
    /\ se_calls' = Append(se_calls, forward(se, se_model))
    /\ se' = [se EXCEPT !.t = @ + 1]
    /\ UNCHANGED << se_model, ds_vars, aux_vars, actor_vars >>

-----------------------------------------------------------------------------
(* Python sequences and tensors                                            *)

\* seq[idx] for a Python list, tuple or tensor of length Len(seq):
\* indices -len .. len-1 are valid, a negative one counts from the end
PyInRange(seq, idx) == -Len(seq) <= idx /\ idx < Len(seq)
PyGet(seq, idx)     == IF idx < 0 THEN seq[Len(seq) + idx + 1] ELSE seq[idx + 1]

\* tensor.flatten() of a 2-D tensor given as a sequence of rows
RECURSIVE Flatten(_)
Flatten(rows) == IF rows = << >> THEN << >> ELSE rows[1] \o Flatten(Tail(rows))

RECURSIVE Reverse(_)
Reverse(s) == IF s = << >> THEN << >> ELSE Append(Reverse(Tail(s)), s[1])

RECURSIVE SumSeq(_)
SumSeq(s) == IF s = << >> THEN 0 ELSE s[1] + SumSeq(Tail(s))

-----------------------------------------------------------------------------
(* Advantage/return estimator (algorithms/utils.py)                        *)

\* one backward step of the estimator at transition m, given the running
\* accumulator gae and the value of the following transition
gae_step(m, gae, next_value, gamma, lam) ==
    LET notdone == Int2Rat(1 - m.done)
        delta   == RSub(RAdd(Int2Rat(m.reward),
                             RMul(RMul(gamma, next_value), notdone)),
                        Int2Rat(m.value))
    IN  RAdd(delta, RMul(RMul(RMul(gamma, lam), notdone), gae))

\* the reverse-chronological pass: acc collects the advantages of steps
\* t+1 .. n, latest step first
RECURSIVE gae_backward(_, _, _, _, _, _)
gae_backward(episode, t, gae, next_value, acc, cfg) ==
    IF t = 0 THEN acc
    ELSE LET g == gae_step(episode[t], gae, next_value, cfg[1], cfg[2])
         IN  gae_backward(episode, t - 1, g, Int2Rat(episode[t].value),
                          Append(acc, g), cfg)

\* (faulty variant: the backward pass is returned without re-reversal)
get_gae_advantages_unreversed(episode, cfg) ==
    gae_backward(episode, Len(episode), Zero, Zero, << >>, cfg)

get_gae_advantages(episode, cfg) ==
    Reverse(gae_backward(episode, Len(episode), Zero, Zero, << >>, cfg))

\* elementwise values + advantages; operands of different lengths are an error
get_returns(values, advantages) ==
    IF Len(values) # Len(advantages)
    THEN [status |-> "error", out |-> << >>]
    ELSE [status |-> "ok",
          out |-> [i \in 1 .. Len(values) |->
                     RAdd(Int2Rat(values[i]), advantages[i])]]

-----------------------------------------------------------------------------
(* ExperienceDataset (algorithms/dataset.py)                               *)

MaxEpisodes == 2    \* episodes per constructor call
MaxTotal    == 2    \* transitions per constructor call, over all episodes

Rewards == {0, 1}
Dones   == {0, 1}
Values  == {0, 1}
Steps   == Rewards \X Dones \X Values
GaeConfigs == { << Rat(99, 100), Rat(95, 100) >>, << Rat(1, 2), Rat(1, 2) >> }

\* Memory(state, action, action_log_prob, reward, done, value): the state,
\* action and log-probability tensors have shape (1, 2), (1, 1) and (1, 1) and
\* carry a label that tells the transitions of one input apart.
Memory(label, step) ==
    [state           |-> << << label, 0 >> >>,
     action          |-> << << 100 + label >> >>,
     action_log_prob |-> << << -label >> >>,
     reward          |-> step[1],
     done            |-> step[2],
     value           |-> step[3]]

EpisodeLengths ==
    UNION { { ls \in [1 .. k -> 0 .. MaxTotal] : SumSeq(ls) <= MaxTotal } :
            k \in 0 .. MaxEpisodes }

\* the episodes with lengths ls whose transitions carry, in order, the steps flat
MakeEpisodes(ls, flat) ==
    [k \in 1 .. Len(ls) |->
       [j \in 1 .. ls[k] |->
          Memory(10 * k + j, flat[SumSeq(SubSeq(ls, 1, k - 1)) + j])]]

EpisodeLists ==
    UNION { { MakeEpisodes(ls, flat) : flat \in [1 .. SumSeq(ls) -> Steps] } :
            ls \in EpisodeLengths }

\* self.episodes after the loop: every episode's transitions, in input order
\* (faulty variant: each episode is put in front of the earlier ones)
RECURSIVE extend_episodes_front(_)
extend_episodes_front(episodes) ==
    IF episodes = << >> THEN << >>
    ELSE extend_episodes_front(Tail(episodes)) \o episodes[1]

RECURSIVE extend_episodes(_)
extend_episodes(episodes) ==
    IF episodes = << >> THEN << >>
    ELSE episodes[1] \o extend_episodes(Tail(episodes))

\* self.advantages after the loop: get_gae_advantages(e) of every episode e
\* (faulty variants: one estimator pass over the concatenated episodes; each
\* episode's advantages put in front of the earlier ones)
extend_advantages_flat(episodes, cfg) ==
    get_gae_advantages(extend_episodes(episodes), cfg)

RECURSIVE extend_advantages_prepend(_, _)
extend_advantages_prepend(episodes, cfg) ==
    IF episodes = << >> THEN << >>
    ELSE extend_advantages_prepend(Tail(episodes), cfg)
             \o get_gae_advantages(episodes[1], cfg)

RECURSIVE extend_advantages(_, _)
extend_advantages(episodes, cfg) ==
    IF episodes = << >> THEN << >>
    ELSE get_gae_advantages(episodes[1], cfg)
             \o extend_advantages(Tail(episodes), cfg)

NoDataset ==
    [status |-> "none", states |-> << >>, actions |-> << >>,
     actions_log_prob |-> << >>, rewards |-> << >>, done |-> << >>,
     values |-> << >>, advantages |-> << >>, returns |-> << >>]

\* (states, ..., values) = zip(*self.episodes): the six per-field tuples.
\* zip of no transitions yields nothing, and unpacking it into six names
\* raises ValueError.
\* (faulty variant: no transitions give six empty tuples)
unzip_lenient(flat) ==
    [status |-> "ok",
     states           |-> [i \in 1 .. Len(flat) |-> flat[i].state],
     actions          |-> [i \in 1 .. Len(flat) |-> flat[i].action],
     actions_log_prob |-> [i \in 1 .. Len(flat) |-> flat[i].action_log_prob],
     rewards          |-> [i \in 1 .. Len(flat) |-> flat[i].reward],
     done             |-> [i \in 1 .. Len(flat) |-> flat[i].done],
     values           |-> [i \in 1 .. Len(flat) |-> flat[i].value]]

unzip(flat) ==
    IF flat = << >>
    THEN [status |-> "error", states |-> << >>, actions |-> << >>,
          actions_log_prob |-> << >>, rewards |-> << >>, done |-> << >>,
          values |-> << >>]
    ELSE [status |-> "ok",
          states           |-> [i \in 1 .. Len(flat) |-> flat[i].state],
          actions          |-> [i \in 1 .. Len(flat) |-> flat[i].action],
          actions_log_prob |-> [i \in 1 .. Len(flat) |-> flat[i].action_log_prob],
          rewards          |-> [i \in 1 .. Len(flat) |-> flat[i].reward],
          done             |-> [i \in 1 .. Len(flat) |-> flat[i].done],
          values           |-> [i \in 1 .. Len(flat) |-> flat[i].value]]

\* the arguments of the get_returns call that ends the constructor
\* (faulty variant: the rewards are passed in place of the values)
returns_of_rewards(fields, advantages) == get_returns(fields.rewards, advantages)

returns_of(fields, advantages) == get_returns(fields.values, advantages)

\* ExperienceDataset.__init__: the object built, or status "error" when the
\* constructor raises
ExperienceDataset_init(episodes, cfg) ==
    LET advantages == extend_advantages(episodes, cfg)
        fields     == unzip(extend_episodes(episodes))
        returns    == returns_of(fields, advantages)
    IN  IF fields.status = "error" \/ returns.status = "error"
        THEN [NoDataset EXCEPT !.status = "error"]
        ELSE [status |-> "ok",
              states |-> fields.states, actions |-> fields.actions,
              actions_log_prob |-> fields.actions_log_prob,
              rewards |-> fields.rewards, done |-> fields.done,
              values |-> fields.values,
              advantages |-> advantages, returns |-> returns.out]

\* ExperienceDataset.__len__
ExperienceDataset_len(self) == Len(self.states)

NoItem == [status |-> "none", idx |-> 0, item |-> << >>]

\* ExperienceDataset.__getitem__
ExperienceDataset_getitem(self, idx) ==
    IF ~PyInRange(self.states, idx)
    THEN [status |-> "error", idx |-> idx, item |-> << >>]
    ELSE [status |-> "ok", idx |-> idx,
          item |-> << Flatten(PyGet(self.states, idx)),
                      Flatten(PyGet(self.actions, idx)),
                      Flatten(PyGet(self.actions_log_prob, idx)),
                      PyGet(self.rewards, idx),
                      PyGet(self.done, idx),
                      PyGet(self.values, idx),
                      PyGet(self.advantages, idx),
                      PyGet(self.returns, idx) >>]

DsConstruct ==
    /\ ds.status = "none"
    /\ ds' = ExperienceDataset_init(ds_in, gae_cfg)
    /\ UNCHANGED << gae_cfg, ds_in, ds_item, se_vars, aux_vars, actor_vars >>

DsGetItem ==
    /\ ds.status = "ok"
    /\ \E idx \in -1 .. ExperienceDataset_len(ds) :
          ds_item' = ExperienceDataset_getitem(ds, idx)
    /\ UNCHANGED << gae_cfg, ds_in, ds, se_vars, aux_vars, actor_vars >>

-----------------------------------------------------------------------------
(* ExperienceAuxDataset (algorithms/dataset.py)                            *)

MaxAux      == 2    \* MemoryAux records per constructor call
MaxRows     == 2    \* timesteps (rows) held by one MemoryAux record
MaxLogProbs == 5    \* rows of the action_log_probs tensor

\* MemoryAux record r holding rows timesteps: a (rows, 2) state tensor and
\* (rows,) tensors in its second and third position, which the constructor
\* unpacks as returns and old values.  Labels tell the timesteps apart.
MemoryAux(r, rows) ==
    [state   |-> [j \in 1 .. rows |-> << 10 * r + j, 0 >>],
     actions |-> [j \in 1 .. rows |-> 200 + 10 * r + j],
     value   |-> [j \in 1 .. rows |-> 300 + 10 * r + j]]

AuxEpisodes ==
    UNION { { [r \in 1 .. k |-> MemoryAux(r, ts[r])] :
                ts \in [1 .. k -> 1 .. MaxRows] } : k \in 0 .. MaxAux }

\* the optional action_log_probs argument: None, or an (n, 1) tensor
None == [given |-> FALSE, rows |-> << >>]
ActionLogProbs ==
    { None } \cup { [given |-> TRUE, rows |-> [i \in 1 .. n |-> << -i >>]] :
                      n \in 0 .. MaxLogProbs }

\* torch.stack needs tensors of one shape
Stackable(tensors) ==
    \A i, j \in 1 .. Len(tensors) : Len(tensors[i]) = Len(tensors[j])

NoAuxDataset ==
    [status |-> "none", states |-> << >>, returns |-> << >>,
     old_values |-> << >>, action_log_probs |-> None]

\* ExperienceAuxDataset.__init__: zip(*episodes_aux) unpacked into three
\* names, each stacked and viewed as one row per timestep
ExperienceAuxDataset_init(episodes_aux, action_log_probs) ==
    LET states     == [r \in 1 .. Len(episodes_aux) |-> episodes_aux[r].state]
        returns    == [r \in 1 .. Len(episodes_aux) |-> episodes_aux[r].actions]
        old_values == [r \in 1 .. Len(episodes_aux) |-> episodes_aux[r].value]
        column(t)  == LET f == Flatten(t) IN [i \in 1 .. Len(f) |-> << f[i] >>]
    IN  IF episodes_aux = << >> \/ ~Stackable(states)
           \/ ~Stackable(returns) \/ ~Stackable(old_values)
        THEN [NoAuxDataset EXCEPT !.status = "error"]
        ELSE [status           |-> "ok",
              states           |-> Flatten(states),
              returns          |-> column(returns),
              old_values       |-> column(old_values),
              action_log_probs |-> action_log_probs]

\* ExperienceAuxDataset.__len__
ExperienceAuxDataset_len(self) == Len(self.states)

\* ExperienceAuxDataset.__getitem__: the four reads are made in order and the
\* first that raises ends the call
\* (faulty variant: a missing action_log_probs is skipped)
ExperienceAuxDataset_getitem_optional(self, idx) ==
    IF ~PyInRange(self.states, idx)
       \/ ~PyInRange(self.returns, idx)
       \/ ~PyInRange(self.old_values, idx)
       \/ (self.action_log_probs.given
             /\ ~PyInRange(self.action_log_probs.rows, idx))
    THEN [status |-> "error", idx |-> idx, item |-> << >>]
    ELSE [status |-> "ok", idx |-> idx,
          item |-> << Flatten(<< PyGet(self.states, idx) >>),
                      Flatten(<< PyGet(self.returns, idx) >>),
                      Flatten(<< PyGet(self.old_values, idx) >>),
                      IF self.action_log_probs.given
                      THEN Flatten(<< PyGet(self.action_log_probs.rows, idx) >>)
                      ELSE << >> >>]

ExperienceAuxDataset_getitem(self, idx) ==
    IF ~PyInRange(self.states, idx)
       \/ ~PyInRange(self.returns, idx)
       \/ ~PyInRange(self.old_values, idx)
       \/ ~self.action_log_probs.given
       \/ ~PyInRange(self.action_log_probs.rows, idx)
    THEN [status |-> "error", idx |-> idx, item |-> << >>]
    ELSE [status |-> "ok", idx |-> idx,
          item |-> << Flatten(<< PyGet(self.states, idx) >>),
                      Flatten(<< PyGet(self.returns, idx) >>),
                      Flatten(<< PyGet(self.old_values, idx) >>),
                      Flatten(<< PyGet(self.action_log_probs.rows, idx) >>) >>]

AuxConstruct ==
    /\ aux.status = "none"
    /\ aux' = ExperienceAuxDataset_init(aux_in.episodes_aux,
                                        aux_in.action_log_probs)
    /\ UNCHANGED << aux_in, aux_item, aux_log, se_vars, ds_vars, actor_vars >>

\* one indexed access; aux_log keeps, for the indices 0 .. len-1, which were
\* read without error and whether any access to one of them raised
AuxGetItem ==
    /\ aux.status = "ok"
    /\ \E idx \in -1 .. ExperienceAuxDataset_len(aux) :
         LET got     == ExperienceAuxDataset_getitem(aux, idx)
             inrange == 0 <= idx /\ idx < ExperienceAuxDataset_len(aux)
         IN  /\ aux_item' = got
             /\ aux_log' =
                  IF ~inrange THEN aux_log
                  ELSE IF got.status = "ok"
                       THEN [aux_log EXCEPT !.read = @ \cup {idx}]
                       ELSE [aux_log EXCEPT !.failed = TRUE]
    /\ UNCHANGED << aux_in, aux, se_vars, ds_vars, actor_vars >>

-----------------------------------------------------------------------------
(* ClipActorLoss (algorithms/losses.py)                                    *)

MaxBatch == 2    \* rows of the log-probability tensors

DefaultActorEps == Rat(2, 10)

\* log-probabilities in tenths of a nat, advantages in units; new - old is
\* one of 0, 0.1 and -0.2 (ratio within the clip range) and -0.3 (below it)
OldLogProbs == {-1, 0}
NewLogProbs == {-3, 0}
Advantages  == {-1, 0, 1}
ActionDims  == {1, 2}

ActorInputs ==
    UNION { [old : [1 .. b -> [1 .. a -> OldLogProbs]],
             new : [1 .. b -> [1 .. a -> NewLogProbs]],
             adv : [1 .. b -> Advantages]] :
            b \in 1 .. MaxBatch, a \in ActionDims }

\* exp(d / 10) to four decimals
ExpTenths(d) ==
    CASE d = -4 -> Rat(6703, 10000)
      [] d = -3 -> Rat(7408, 10000)
      [] d = -2 -> Rat(8187, 10000)
      [] d = -1 -> Rat(9048, 10000)
      [] d =  0 -> One
      [] d =  1 -> Rat(11052, 10000)
      [] d =  2 -> Rat(12214, 10000)
      [] d =  3 -> Rat(13499, 10000)
      [] d =  4 -> Rat(14918, 10000)

ClipActorLoss_init(eps) == [eps |-> eps]

\* ratio = (new_actions_log_probs - old_actions_log_probs).exp()
Ratio(old, new) ==
    [b \in 1 .. Len(old) |->
       [a \in 1 .. Len(old[b]) |-> ExpTenths(new[b][a] - old[b][a])]]

\* tensor.mean() of a 2-D tensor
Mean(t) ==
    LET f == Flatten(t) IN RMul(RSum(f), Rat(1, Len(f)))

\* ClipActorLoss.forward
\* (faulty variant: the surrogate, not the ratio, is clamped and returned)
ClipActorLoss_forward_clip_surrogate(self, old, new, advantages) ==
    LET ratio == Ratio(old, new)
        lo    == RSub(One, self.eps)
        hi    == RAdd(One, self.eps)
        clipped == [b \in 1 .. Len(ratio) |-> [a \in 1 .. Len(ratio[b]) |->
                      RClamp(RMul(ratio[b][a], Int2Rat(advantages[b])), lo, hi)]]
    IN  RNeg(Mean(clipped))

ClipActorLoss_forward(self, old, new, advantages) ==
    LET ratio == Ratio(old, new)
        lo    == RSub(One, self.eps)
        hi    == RAdd(One, self.eps)
        surrogate_1 == [b \in 1 .. Len(ratio) |-> [a \in 1 .. Len(ratio[b]) |->
                          RMul(ratio[b][a], Int2Rat(advantages[b]))]]
        surrogate_2 == [b \in 1 .. Len(ratio) |-> [a \in 1 .. Len(ratio[b]) |->
                          RMul(RClamp(ratio[b][a], lo, hi),
                               Int2Rat(advantages[b]))]]
        smaller == [b \in 1 .. Len(ratio) |-> [a \in 1 .. Len(ratio[b]) |->
                      RMin(surrogate_1[b][a], surrogate_2[b][a])]]
    IN  RNeg(Mean(smaller))

ActorForward ==
    /\ actor_out.status = "none"
    /\ actor_out' = [status |-> "ok",
                     loss |-> ClipActorLoss_forward(actor, actor_in.old,
                                                    actor_in.new, actor_in.adv)]
    /\ UNCHANGED << actor, actor_in, se_vars, ds_vars, aux_vars >>

-----------------------------------------------------------------------------
(* Specifications: one per component, the others idle                      *)

IdleSpectral ==
    /\ se = SpectralEntropyLoss_init(DefaultSpectralWeight, 1)
    /\ se_model = << >>
    /\ se_calls = << >>

IdleDataset ==
    /\ gae_cfg = << One, One >>
    /\ ds_in = << >>
    /\ ds = NoDataset
    /\ ds_item = NoItem

IdleAux ==
    /\ aux_in = [episodes_aux |-> << >>, action_log_probs |-> None]
    /\ aux = NoAuxDataset
    /\ aux_item = NoItem
    /\ aux_log = [read |-> {}, failed |-> FALSE]

IdleActor ==
    /\ actor = ClipActorLoss_init(DefaultActorEps)
    /\ actor_in = [old |-> << >>, new |-> << >>, adv |-> << >>]
    /\ actor_out = [status |-> "none", loss |-> Zero]

InitSpectral ==
    /\ \E p \in 1 .. MaxPeriod :
          se = SpectralEntropyLoss_init(DefaultSpectralWeight, p)
    /\ se_model \in Models
    /\ se_calls = << >>
    /\ IdleDataset /\ IdleAux /\ IdleActor

InitDataset ==
    /\ gae_cfg \in GaeConfigs
    /\ ds_in \in EpisodeLists
    /\ ds = NoDataset
    /\ ds_item = NoItem
    /\ IdleSpectral /\ IdleAux /\ IdleActor

InitAux ==
    /\ aux_in \in [episodes_aux : AuxEpisodes, action_log_probs : ActionLogProbs]
    /\ aux = NoAuxDataset
    /\ aux_item = NoItem
    /\ aux_log = [read |-> {}, failed |-> FALSE]
    /\ IdleSpectral /\ IdleDataset /\ IdleActor

InitActor ==
    /\ actor = ClipActorLoss_init(DefaultActorEps)
    /\ actor_in \in ActorInputs
    /\ actor_out = [status |-> "none", loss |-> Zero]
    /\ IdleSpectral /\ IdleDataset /\ IdleAux

NextSpectral == SpectralForward
NextDataset  == DsConstruct \/ DsGetItem
NextAux      == AuxConstruct \/ AuxGetItem
NextActor    == ActorForward

SpecSpectral == InitSpectral /\ [][NextSpectral]_vars
SpecDataset  == InitDataset /\ [][NextDataset]_vars
SpecAux      == InitAux /\ [][NextAux]_vars
SpecActor    == InitActor /\ [][NextActor]_vars

Init == InitSpectral \/ InitDataset \/ InitAux \/ InitActor
Next == NextSpectral \/ NextDataset \/ NextAux \/ NextActor
Spec == Init /\ [][Next]_vars

-----------------------------------------------------------------------------
(* Properties of the spectral-entropy regulariser (SpecSpectral)           *)

\* some parameter with at least two dimensions has more than one singular value
HasSpectrum(model) ==
    \E i \in 1 .. Len(model) :
        Len(model[i].shape) >= 2 /\ RankOf(model[i].shape) >= 2

\* C1 as stated: with update period 4, of the first four calls on a fixed
\* model the first three return zero and the fourth returns a non-zero loss,
\* whatever the model holds.
C1_FourthCallNonZero ==
    (se.update_rate = 4 /\ Len(se_calls) >= 4) =>
        /\ \A k \in 1 .. 3 : se_calls[k].loss = Zero
        /\ se_calls[4].loss # Zero

\* C1 amended: with update period 4, the first three calls return zero and
\* the fourth returns weight times the summed spectral entropy, not zeroed;
\* that value is non-zero only if some parameter with at least two dimensions
\* has more than one singular value.
C1_FourthCallUnzeroed ==
    (se.update_rate = 4 /\ Len(se_calls) >= 4) =>
        /\ \A k \in 1 .. 3 : se_calls[k].loss = Zero
        /\ se_calls[4].loss = RMul(se.weight, accumulate(se_model))
        /\ (se_calls[4].loss # Zero => HasSpectrum(se_model))

C1_Witness ==
    /\ se.update_rate = 4
    /\ Len(se_calls) >= 4
    /\ se_calls[4].loss # Zero

\* C7: the call counter is the number of calls made plus one; the k-th call
\* is active exactly when k mod update_rate = 0; an inactive call returns
\* zero; of n calls exactly n div update_rate were active.
C7_CounterSemantics ==
    LET n == Len(se_calls)
    IN  /\ se.t = n + 1
        /\ \A k \in 1 .. n :
              /\ se_calls[k].active <=> (k % se.update_rate = 0)
              /\ ~se_calls[k].active => se_calls[k].loss = Zero
        /\ Cardinality({ k \in 1 .. n : se_calls[k].active })
              = n \div se.update_rate

C7_Witness ==
    /\ se.update_rate = 3
    /\ Len(se_calls) = 7
    /\ se_calls[6].active /\ se_calls[6].loss # Zero
    /\ ~se_calls[7].active

-----------------------------------------------------------------------------
(* Properties of ExperienceDataset (SpecDataset)                           *)

EpisodeOffset(k) == SumSeq([m \in 1 .. k - 1 |-> Len(ds_in[m])])
TotalTransitions == SumSeq([m \in 1 .. Len(ds_in) |-> Len(ds_in[m])])

\* the item expected for a transition m whose advantage is adv
ExpectedItem(m, adv) ==
    << Flatten(m.state), Flatten(m.action), Flatten(m.action_log_prob),
       m.reward, m.done, m.value, adv, RAdd(Int2Rat(m.value), adv) >>

\* C2: the dataset's length is the sum of the episode lengths, and index
\* l1 + ... + l(k-1) + j holds the fields, advantage and return of transition
\* j of episode k, both in the stored collections and in the item read.
C2_FlattenAligned ==
    ds.status = "ok" =>
        /\ ExperienceDataset_len(ds) = TotalTransitions
        /\ \A k \in 1 .. Len(ds_in) :
              LET advs == get_gae_advantages(ds_in[k], gae_cfg)
                  off  == EpisodeOffset(k)
              IN  \A j \in 1 .. Len(ds_in[k]) :
                    LET idx  == off + j - 1
                        want == ExpectedItem(ds_in[k][j], advs[j])
                    IN  /\ ExperienceDataset_getitem(ds, idx)
                             = [status |-> "ok", idx |-> idx, item |-> want]
                        /\ (ds_item.status = "ok" /\ ds_item.idx = idx)
                              => ds_item.item = want

C2_Witness ==
    /\ ds.status = "ok"
    /\ Len(ds_in) = 2
    /\ Len(ds_in[1]) >= 1
    /\ ds_item.status = "ok"
    /\ ds_item.idx >= Len(ds_in[1])

\* C4: the advantages of an episode have the episode's length and satisfy,
\* in chronological order, A_t = delta_t + gamma*lambda*(1-done_t)*A_(t+1)
\* with delta_t = reward_t + gamma*value_(t+1)*(1-done_t) - value_t, where
\* value_(t+1) and A_(t+1) are 0 at the episode's last step; an episode of
\* one transition gets reward - value and an empty one gets nothing.
C4_GaeRecurrence ==
    /\ \A k \in 1 .. Len(ds_in) :
          Len(get_gae_advantages(ds_in[k], gae_cfg)) = Len(ds_in[k])
    /\ ds.status = "ok" =>
        /\ Len(ds.advantages) = TotalTransitions
        /\ \A k \in 1 .. Len(ds_in) :
              LET off == EpisodeOffset(k)
                  n   == Len(ds_in[k])
              IN  \A j \in 1 .. n :
                    LET m      == ds_in[k][j]
                        next_v == IF j = n THEN Zero
                                  ELSE Int2Rat(ds_in[k][j + 1].value)
                        next_a == IF j = n THEN Zero
                                  ELSE ds.advantages[off + j + 1]
                        nd     == Int2Rat(1 - m.done)
                        delta  == RSub(RAdd(Int2Rat(m.reward),
                                            RMul(RMul(gae_cfg[1], next_v), nd)),
                                       Int2Rat(m.value))
                    IN  /\ ds.advantages[off + j] =
                              RAdd(delta,
                                   RMul(RMul(RMul(gae_cfg[1], gae_cfg[2]), nd),
                                        next_a))
                        /\ n = 1 =>
                              ds.advantages[off + j] = Int2Rat(m.reward - m.value)

C4_Witness ==
    /\ ds.status = "ok"
    /\ Len(ds_in) = 2
    /\ Len(ds_in[1]) = 0
    /\ Len(ds_in[2]) = 2
    /\ ds_in[2][1].done = 0
    /\ ds.advantages[2] # Zero

\* C5: in a constructed dataset values, advantages and returns have one
\* length, and at every index the return is the value plus the advantage.
C5_ReturnIsValuePlusAdvantage ==
    ds.status = "ok" =>
        /\ Len(ds.returns) = Len(ds.values)
        /\ Len(ds.advantages) = Len(ds.values)
        /\ \A i \in 1 .. Len(ds.values) :
              ds.returns[i] = RAdd(Int2Rat(ds.values[i]), ds.advantages[i])
        /\ ds_item.status = "ok" =>
              ds_item.item[8] = RAdd(Int2Rat(ds_item.item[6]), ds_item.item[7])

C5_Witness ==
    /\ ds.status = "ok"
    /\ ds_item.status = "ok"
    /\ ds_item.item[6] = 1
    /\ ds_item.item[4] = 0
    /\ ds_item.item[7] # Zero

\* C8: the advantages stored for an episode are those of a dataset built from
\* that episode alone, whatever precedes or follows it; at the episode's last
\* transition the advantage is reward - value even when done = 0.
C8_PerEpisodeAdvantages ==
    ds.status = "ok" =>
        \A k \in 1 .. Len(ds_in) :
            LET off == EpisodeOffset(k)
                n   == Len(ds_in[k])
            IN  n > 0 =>
                  /\ SubSeq(ds.advantages, off + 1, off + n)
                       = ExperienceDataset_init(<< ds_in[k] >>, gae_cfg).advantages
                  /\ ds.advantages[off + n]
                       = Int2Rat(ds_in[k][n].reward - ds_in[k][n].value)

C8_Witness ==
    /\ ds.status = "ok"
    /\ Len(ds_in) = 2
    /\ Len(ds_in[1]) >= 1
    /\ Len(ds_in[2]) >= 1
    /\ ds_in[1][Len(ds_in[1])].done = 0
    /\ ds_in[2][1].value = 1

\* C9: construction raises exactly when the input holds no transition at all
\* (no episode, or empty episodes only); otherwise it succeeds and an empty
\* episode contributes no item.
C9_EmptyInputRaises ==
    ds.status # "none" =>
        /\ ds.status = "error" <=> TotalTransitions = 0
        /\ ds.status = "ok" => ExperienceDataset_len(ds) = TotalTransitions

C9_Witness ==
    /\ ds.status = "error"
    /\ Len(ds_in) = 2

-----------------------------------------------------------------------------
(* Properties of ExperienceAuxDataset (SpecAux)                            *)

AuxRows == SumSeq([r \in 1 .. Len(aux_in.episodes_aux) |->
                     Len(aux_in.episodes_aux[r].state)])

\* C3: a dataset built with a log-probability tensor whose row count differs
\* from the flattened row count cannot be read at every index 0 .. len-1
\* without an error.
C3_MismatchRejected ==
    ( /\ aux.status = "ok"
      /\ aux_in.action_log_probs.given
      /\ Len(aux_in.action_log_probs.rows) # ExperienceAuxDataset_len(aux)
      /\ aux_log.read = 0 .. ExperienceAuxDataset_len(aux) - 1 )
    => aux_log.failed

\* C10: for a non-empty list of records of one shape, construction without
\* log-probabilities succeeds with one row per timestep, and every indexed
\* access to the dataset then raises: no item is ever read.
C10_NoLogProbsNoItem ==
    ( /\ aux.status # "none"
      /\ ~aux_in.action_log_probs.given
      /\ aux_in.episodes_aux # << >>
      /\ Stackable([r \in 1 .. Len(aux_in.episodes_aux) |->
                      aux_in.episodes_aux[r].state]) )
    => /\ aux.status = "ok"
       /\ ExperienceAuxDataset_len(aux) = AuxRows
       /\ aux_item.status # "ok"
       /\ aux_log.read = {}
       /\ \A idx \in -ExperienceAuxDataset_len(aux) - 1
                       .. ExperienceAuxDataset_len(aux) :
             ExperienceAuxDataset_getitem(aux, idx).status = "error"

C10_Witness ==
    /\ aux.status = "ok"
    /\ ~aux_in.action_log_probs.given
    /\ ExperienceAuxDataset_len(aux) = 4
    /\ aux_item.status = "error"
    /\ aux_item.idx = 0
    /\ aux_log.failed

-----------------------------------------------------------------------------
(* Properties of ClipActorLoss (SpecActor)                                 *)

RatioWithinClip ==
    LET ratio == Ratio(actor_in.old, actor_in.new)
    IN  \A b \in 1 .. Len(ratio) : \A a \in 1 .. Len(ratio[b]) :
            /\ RLe(RSub(One, actor.eps), ratio[b][a])
            /\ RLe(ratio[b][a], RAdd(One, actor.eps))

\* C6: when every advantage is 0 and every ratio exp(new - old) lies within
\* [1 - eps, 1 + eps], the loss returned is exactly 0.
C6_ZeroAdvantageZeroLoss ==
    ( /\ actor_out.status = "ok"
      /\ \A b \in 1 .. Len(actor_in.adv) : actor_in.adv[b] = 0
      /\ RatioWithinClip )
    => actor_out.loss = Zero

C6_Witness ==
    /\ actor_out.status = "ok"
    /\ Len(actor_in.adv) = 2
    /\ \A b \in 1 .. 2 : actor_in.adv[b] = 0
    /\ RatioWithinClip
    /\ actor_in.new[1][1] > actor_in.old[1][1]
    /\ actor_in.new[2][1] < actor_in.old[2][1]
    /\ actor_out.loss = Zero

====
